---- MODULE Spec2Model ----
(***************************************************************************)
(* StatArb-Engine: the signal state machine (signal_generator.py), the     *)
(* cost-aware return simulation (backtester.py), the pair scans and their  *)
(* fallback levels (pair_selector.py) and the drawdown and ratio metrics   *)
(* (performance.py), and the hand-over of the signals to the backtest     *)
(* (main.py).                                                              *)
(*                                                                         *)
(* Row t of a pandas table (t = 0, 1, ...) is element t+1 of a sequence.   *)
(* Floating point values are modelled by exact values: a rational          *)
(* [nan, n, d], and for z-scores (whose denominator is a square root) a    *)
(* record [nan, num, sqA, sqB] standing for num * sqrt(sqA) / sqrt(sqB).   *)
(* NaN is explicit: every comparison with it is false and arithmetic       *)
(* propagates it.                                                          *)
(***************************************************************************)
EXTENDS Integers, Sequences, FiniteSets, TLC

\* ------------------------------------------------------------- bounds
MaxLen == 5
MaxSpread == 2
MaxWindow == 4
MaxRows == 3
MaxSymbols == 3
MaxSeries == 5
MaxReturns == 3
MaxPeriods == 4

\* ------------------------------------------------------------ state
VARIABLES
    \* SignalGenerator object
    entry_threshold, exit_threshold, stop_loss, lookback_window,
    \* generate_signals: argument, the signals table, locals
    spread, zscore, position, entry_signal, exit_signal,
    current_position, i, pc,
    \* Backtester object
    initial_capital, transaction_cost, slippage,
    \* calculate_returns: the two price columns, the columns it adds to its
    \* copy of the signals table, and its loop index
    prices1, prices2, returns1, returns2, position_change, strategy_return,
    transaction_costs, slippage_costs, net_return, cumulative_return,
    portfolio_value, ri,
    \* run_backtest: the record it returns
    backtest,
    \* PairSelector object
    pvalue_threshold, self_pairs,
    \* the price table seen through the statistics the scans compute from it:
    \* the number of symbols and, per unordered pair, what the library calls
    \* give
    symbols, stats,
    \* select_best_pair: arguments, the local `pairs`, the scans called so
    \* far, the pair returned and the error raised
    min_correlation, use_fallback, pairs, calls, best_pair, error,
    \* PerformanceAnalyzer: the series passed in and the value returned
    series, risk_free, metric

\* the signals table (an argument of calculate_returns, the result of
\* generate_signals)
tableVars == <<position, entry_signal, exit_signal>>

sgVars == <<entry_threshold, exit_threshold, stop_loss, lookback_window,
            spread, zscore, current_position, i>>

btVars == <<initial_capital, transaction_cost, slippage, prices1, prices2,
            returns1, returns2, position_change, strategy_return,
            transaction_costs, slippage_costs, net_return,
            cumulative_return, portfolio_value, ri>>

psVars == <<pvalue_threshold, self_pairs, symbols, stats, min_correlation,
            use_fallback, pairs, calls, best_pair, error>>

paVars == <<series, risk_free, metric>>

\* ---------------------------------------------------- exact numbers
R(n, d) == [n |-> n, d |-> d]

Neg(c) == [n |-> -c.n, d |-> c.d]

RECURSIVE Sum(_)
Sum(s) == IF s = <<>> THEN 0 ELSE Head(s) + Sum(Tail(s))

RECURSIVE SumSq(_)
SumSq(s) == IF s = <<>> THEN 0 ELSE Head(s) * Head(s) + SumSq(Tail(s))

\* sign(x) * x^2 * a: strictly increasing in x for a > 0, so it orders
\* x * sqrt(a) against y * sqrt(b).
SSq(x, a) == IF x < 0 THEN -(x * x * a) ELSE x * x * a

ZNaN == [nan |-> TRUE, num |-> 0, sqA |-> 1, sqB |-> 1]

\* z < c, z > c and z = c for a z-score z and a rational c; all false on NaN.
ZLess(z, c) == ~z.nan /\ SSq(z.num * c.d, z.sqA) < SSq(c.n, z.sqB)

ZGreater(z, c) == ~z.nan /\ SSq(z.num * c.d, z.sqA) > SSq(c.n, z.sqB)

ZEq(z, c) == ~z.nan /\ SSq(z.num * c.d, z.sqA) = SSq(c.n, z.sqB)

\* Rationals in lowest terms with a positive denominator, or NaN.
Abs(x) == IF x < 0 THEN -x ELSE x

RECURSIVE GCD(_, _)
GCD(a, b) == IF b = 0 THEN a ELSE GCD(b, a % b)

NaN == [nan |-> TRUE, n |-> 0, d |-> 1]

Frac(n, d) ==
    LET g == GCD(Abs(n), Abs(d))
    IN  IF d < 0 THEN [nan |-> FALSE, n |-> (-n) \div g, d |-> (-d) \div g]
        ELSE [nan |-> FALSE, n |-> n \div g, d |-> d \div g]

Num(k) == Frac(k, 1)

FAdd(a, b) ==
    IF a.nan \/ b.nan THEN NaN
    ELSE LET g == GCD(a.d, b.d)
         IN  Frac(a.n * (b.d \div g) + b.n * (a.d \div g), a.d * (b.d \div g))

FNeg(a) == IF a.nan THEN NaN ELSE [nan |-> FALSE, n |-> -a.n, d |-> a.d]

FSub(a, b) == FAdd(a, FNeg(b))

FMul(a, b) ==
    IF a.nan \/ b.nan THEN NaN
    ELSE LET g1 == GCD(Abs(a.n), b.d)
             g2 == GCD(Abs(b.n), a.d)
         IN  Frac((a.n \div g1) * (b.n \div g2), (a.d \div g2) * (b.d \div g1))

\* a / b for b # 0
FDiv(a, b) ==
    IF a.nan \/ b.nan THEN NaN
    ELSE FMul(a, Frac(b.d, b.n))

\* -------------------------------------------------- calculate_zscore
\* The observations behind row k: the whole history (expanding, lookback
\* None) or the trailing window; <<>> while the rolling window is not full.
WindowAt(s, k, lookback) ==
    IF lookback.none THEN SubSeq(s, 1, k)
    ELSE IF k < lookback.w THEN <<>>
    ELSE SubSeq(s, k - lookback.w + 1, k)

\* (x - mean) / std over the window w, with mean = Sum/n and
\* std^2 = (n*SumSq - Sum^2) / (n*(n-1)) (sample deviation, ddof = 1).
\* std is NaN for fewer than 2 observations; std = 0 gives 0/0 = NaN.
ZOf(x, w) ==
    LET n  == Len(w)
        vn == n * SumSq(w) - Sum(w) * Sum(w)
    IN  IF n < 2 \/ vn = 0 THEN ZNaN
        ELSE [nan |-> FALSE, num |-> n * x - Sum(w),
              sqA |-> n * (n - 1), sqB |-> n * n * vn]

calculate_zscore(s, lookback) ==
    [k \in 1..Len(s) |-> ZOf(s[k], WindowAt(s, k, lookback))]

\* ------------------------------------------------- generate_signals
\* One iteration of the loop body, by state. The row was initialised to
\* position 0, entry_signal 0, exit_signal 0 and a branch writes only the
\* cells it assigns.
Row(cur, pos, en, ex) ==
    [current_position |-> cur, position |-> pos,
     entry_signal |-> en, exit_signal |-> ex]

\* Mutants of the loop body (used only to test the properties below).
FlatStepNonStrict(z) ==
    IF ZLess(z, Neg(entry_threshold)) \/ ZEq(z, Neg(entry_threshold))
    THEN Row(1, 1, 1, 0)
    ELSE IF ZGreater(z, entry_threshold) \/ ZEq(z, entry_threshold)
    THEN Row(-1, -1, -1, 0)
    ELSE Row(0, 0, 0, 0)

LongStepExitKeepsPosition(z) ==
    IF ZLess(z, Neg(stop_loss)) THEN Row(0, 1, 0, 1)
    ELSE IF ZGreater(z, Neg(exit_threshold)) THEN Row(0, 1, 0, 1)
    ELSE Row(1, 1, 0, 0)

LongStepReverses(z) ==
    IF ZLess(z, Neg(stop_loss)) THEN Row(0, 0, 0, 1)
    ELSE IF ZGreater(z, entry_threshold) THEN Row(-1, -1, -1, 1)
    ELSE IF ZGreater(z, Neg(exit_threshold)) THEN Row(0, 0, 0, 1)
    ELSE Row(1, 1, 0, 0)

LongStepNegatedTest(z) ==
    IF ZLess(z, Neg(stop_loss)) THEN Row(0, 0, 0, 1)
    ELSE IF ~(ZLess(z, Neg(exit_threshold)) \/ ZEq(z, Neg(exit_threshold)))
    THEN Row(0, 0, 0, 1)
    ELSE Row(1, 1, 0, 0)

LongStepHoldNotRecorded(z) ==
    IF ZLess(z, Neg(stop_loss)) THEN Row(0, 0, 0, 1)
    ELSE IF ZGreater(z, Neg(exit_threshold)) THEN Row(0, 0, 0, 1)
    ELSE Row(1, 0, 0, 0)

ShortStepNoStopLoss(z) ==
    IF ZLess(z, exit_threshold) THEN Row(0, 0, 0, 1)
    ELSE Row(-1, -1, 0, 0)

ShortStepSilentExit(z) ==
    IF ZGreater(z, stop_loss) THEN Row(0, 0, 0, 1)
    ELSE IF ZLess(z, exit_threshold) THEN Row(0, 0, 0, 0)
    ELSE Row(-1, -1, 0, 0)

FlatStepNaNEnters(z) ==
    IF ~(ZGreater(z, Neg(entry_threshold)) \/ ZEq(z, Neg(entry_threshold)))
    THEN Row(1, 1, 1, 0)
    ELSE IF ZGreater(z, entry_threshold) THEN Row(-1, -1, -1, 0)
    ELSE Row(0, 0, 0, 0)

ShortStepReverses(z) ==
    IF ZGreater(z, stop_loss) THEN Row(0, 0, 0, 1)
    ELSE IF ZLess(z, Neg(entry_threshold)) THEN Row(1, 1, 1, 1)
    ELSE IF ZLess(z, exit_threshold) THEN Row(0, 0, 0, 1)
    ELSE Row(-1, -1, 0, 0)

FlatStep(z) ==
    IF ZLess(z, Neg(entry_threshold)) THEN Row(1, 1, 1, 0)
    ELSE IF ZGreater(z, entry_threshold) THEN Row(-1, -1, -1, 0)
    ELSE Row(0, 0, 0, 0)

LongStep(z) ==
    IF ZLess(z, Neg(stop_loss)) THEN Row(0, 0, 0, 1)
    ELSE IF ZGreater(z, Neg(exit_threshold)) THEN Row(0, 0, 0, 1)
    ELSE Row(1, 1, 0, 0)

ShortStep(z) ==
    IF ZGreater(z, stop_loss) THEN Row(0, 0, 0, 1)
    ELSE IF ZLess(z, exit_threshold) THEN Row(0, 0, 0, 1)
    ELSE Row(-1, -1, 0, 0)

SignalStep(cur, z) ==
    IF cur = 0 THEN FlatStep(z)
    ELSE IF cur = 1 THEN LongStep(z)
    ELSE ShortStep(z)

\* ------------------------------------------------------ input domains
SpreadVals == 0..MaxSpread

Spreads == UNION {[1..n -> SpreadVals] : n \in 0..MaxLen}

\* lookback_window: None (expanding statistics) or a window width.
Lookbacks ==
    {[none |-> TRUE, w |-> 0]} \cup {[none |-> FALSE, w |-> w] : w \in 1..MaxWindow}

\* (entry_threshold, exit_threshold, stop_loss), all non-negative. The
\* fourth is misconfigured (exit above entry, stop below entry), which the
\* constructor accepts; the fifth has entry and exit thresholds of 0.
ThresholdConfigs ==
    { <<R(3, 2), R(1, 2), R(3, 1)>>,
      <<R(1, 1), R(1, 2), R(2, 1)>>,
      <<R(3, 10), R(1, 10), R(1, 1)>>,
      <<R(1, 2), R(1, 1), R(1, 4)>>,
      <<R(0, 1), R(0, 1), R(1, 1)>> }

Zeros(n) == [k \in 1..n |-> 0]

\* The Backtester and its tables before calculate_returns is entered.
BtIdle ==
    /\ initial_capital = Num(0)
    /\ transaction_cost = Num(0)
    /\ slippage = Num(0)
    /\ prices1 = <<>>
    /\ prices2 = <<>>
    /\ returns1 = <<>>
    /\ returns2 = <<>>
    /\ position_change = <<>>
    /\ strategy_return = <<>>
    /\ transaction_costs = <<>>
    /\ slippage_costs = <<>>
    /\ net_return = <<>>
    /\ cumulative_return = <<>>
    /\ portfolio_value = <<>>
    /\ ri = 0
    /\ backtest = <<>>

\* SignalGenerator(...) followed by the entry of generate_signals(spread):
\* the z-score column and the three zero-initialised columns.
SgInit ==
    /\ \E c \in ThresholdConfigs :
          /\ entry_threshold = c[1]
          /\ exit_threshold = c[2]
          /\ stop_loss = c[3]
    /\ lookback_window \in Lookbacks
    /\ spread \in Spreads
    /\ zscore = calculate_zscore(spread, lookback_window)
    /\ position = Zeros(Len(spread))
    /\ entry_signal = Zeros(Len(spread))
    /\ exit_signal = Zeros(Len(spread))
    /\ current_position = 0
    /\ i = 0
    /\ pc = "loop"

\* for i in range(len(signals)): one iteration (row i, element i+1).
GenerateSignalsIter ==
    /\ pc = "loop"
    /\ i < Len(spread)
    /\ LET r == SignalStep(current_position, zscore[i + 1])
       IN  /\ current_position' = r.current_position
           /\ position' = [position EXCEPT ![i + 1] = r.position]
           /\ entry_signal' = [entry_signal EXCEPT ![i + 1] = r.entry_signal]
           /\ exit_signal' = [exit_signal EXCEPT ![i + 1] = r.exit_signal]
    /\ i' = i + 1
    /\ UNCHANGED <<entry_threshold, exit_threshold, stop_loss,
                   lookback_window, spread, zscore, pc>>
    /\ UNCHANGED <<btVars, backtest, psVars, paVars>>

\* return signals
GenerateSignalsReturn ==
    /\ pc = "loop"
    /\ i = Len(spread)
    /\ pc' = "returned"
    /\ UNCHANGED <<sgVars, tableVars, btVars, backtest, psVars, paVars>>

\* ------------------------------------------------ calculate_returns
\* Series.pct_change(): p[t] / p[t-1] - 1, NaN on the first row.
pct_change(p) ==
    [k \in 1..Len(p) |->
        IF k = 1 THEN NaN ELSE FSub(FDiv(Num(p[k]), Num(p[k - 1])), Num(1))]

\* Mutants of the column computations (used only to test the properties
\* below): diff() without abs(); the position of the row itself instead of
\* the row before; the turnover column subtracted instead of the two cost
\* columns; a running sum instead of the compounded product.
PositionChangeSigned(pos) ==
    [k \in 1..Len(pos) |->
        IF k = 1 THEN NaN ELSE Num(pos[k] - pos[k - 1])]

StrategyReturnAtCurrent(pos, r1, r2, k) ==
    LET curr_pos == pos[k]
    IN  IF curr_pos = 0 THEN Num(0)
        ELSE IF curr_pos = 1 THEN FSub(r2[k], r1[k])
        ELSE FSub(r1[k], r2[k])

NetReturnMinusTurnover(sr, tc, sl) ==
    [k \in 1..Len(sr) |-> FSub(FSub(sr[k], position_change[k]), sl[k])]

RECURSIVE SumSkipNaN(_, _)
SumSkipNaN(col, k) ==
    IF k = 0 THEN Num(0)
    ELSE IF col[k].nan THEN SumSkipNaN(col, k - 1)
    ELSE FAdd(SumSkipNaN(col, k - 1), col[k])

CumulativeReturnAdditive(net) ==
    [k \in 1..Len(net) |-> IF net[k].nan THEN NaN ELSE SumSkipNaN(net, k)]

\* results['position'].diff().abs(): NaN on the first row.
PositionChange(pos) ==
    [k \in 1..Len(pos) |->
        IF k = 1 THEN NaN ELSE Num(Abs(pos[k] - pos[k - 1]))]

\* The loop body for row k (k >= 2): the value written to strategy_return.
StrategyReturnAt(pos, r1, r2, k) ==
    LET prev_pos == pos[k - 1]
    IN  IF prev_pos = 0 THEN Num(0)
        ELSE IF prev_pos = 1 THEN FSub(r2[k], r1[k])
        ELSE FSub(r1[k], r2[k])

\* column * scalar
Scaled(col, rate) == [k \in 1..Len(col) |-> FMul(col[k], rate)]

NetReturn(sr, tc, sl) ==
    [k \in 1..Len(sr) |-> FSub(FSub(sr[k], tc[k]), sl[k])]

\* Series.cumprod() skips NaN: a NaN row stays NaN and does not enter the
\* running product of the rows after it.
RECURSIVE ProdSkipNaN(_, _)
ProdSkipNaN(col, k) ==
    IF k = 0 THEN Num(1)
    ELSE IF col[k].nan THEN ProdSkipNaN(col, k - 1)
    ELSE FMul(ProdSkipNaN(col, k - 1), col[k])

cumprod(col) ==
    [k \in 1..Len(col) |-> IF col[k].nan THEN NaN ELSE ProdSkipNaN(col, k)]

\* (1 + net_return).cumprod() - 1
CumulativeReturn(net) ==
    LET growth   == [k \in 1..Len(net) |-> FAdd(Num(1), net[k])]
        compound == cumprod(growth)
    IN  [k \in 1..Len(net) |-> FSub(compound[k], Num(1))]

\* initial_capital * (1 + cumulative_return)
PortfolioValue(cum, capital) ==
    [k \in 1..Len(cum) |-> FMul(capital, FAdd(Num(1), cum[k]))]

\* ------------------------------------------------------ input domains
PriceLevels == {1, 2}

\* (transaction_cost, slippage)
CostConfigs == { <<Num(0), Num(0)>>, <<Frac(1, 10), Frac(1, 20)>> }

CapitalVals == { Num(100000) }

\* The SignalGenerator and its locals, not used by the Backtester.
SgIdle ==
    /\ entry_threshold = R(0, 1)
    /\ exit_threshold = R(0, 1)
    /\ stop_loss = R(0, 1)
    /\ lookback_window = [none |-> TRUE, w |-> 0]
    /\ spread = <<>>
    /\ zscore = <<>>
    /\ current_position = 0
    /\ i = 0

\* The signal columns that go with a position column, the table starting
\* from position 0: entry_signal holds the position on a row that leaves 0,
\* exit_signal holds 1 on a row that returns to 0.
PositionBefore(pos, k) == IF k = 1 THEN 0 ELSE pos[k - 1]

EntriesOf(pos) ==
    [k \in 1..Len(pos) |-> IF PositionBefore(pos, k) = 0 THEN pos[k] ELSE 0]

ExitsOf(pos) ==
    [k \in 1..Len(pos) |->
        IF PositionBefore(pos, k) # 0 /\ pos[k] = 0 THEN 1 ELSE 0]

\* Backtester(...) and the arguments of calculate_returns(signals, symbol1,
\* symbol2, prices): any position column over {-1, 0, +1} with its signal
\* columns, and two columns of positive prices on the same index.
BtInit ==
    /\ SgIdle
    /\ initial_capital \in CapitalVals
    /\ \E c \in CostConfigs :
          /\ transaction_cost = c[1]
          /\ slippage = c[2]
    /\ \E n \in 1..MaxRows :
          /\ position \in [1..n -> {-1, 0, 1}]
          /\ entry_signal = EntriesOf(position)
          /\ exit_signal = ExitsOf(position)
          /\ prices1 \in [1..n -> PriceLevels]
          /\ prices2 \in [1..n -> PriceLevels]
    /\ returns1 = <<>>
    /\ returns2 = <<>>
    /\ position_change = <<>>
    /\ strategy_return = <<>>
    /\ transaction_costs = <<>>
    /\ slippage_costs = <<>>
    /\ net_return = <<>>
    /\ cumulative_return = <<>>
    /\ portfolio_value = <<>>
    /\ ri = 0
    /\ backtest = <<>>
    /\ pc = "cr_entry"

\* results = signals.copy(); the two pct_change columns; position_change;
\* results['strategy_return'] = 0.0
CalcReturnsSetup ==
    /\ pc = "cr_entry"
    /\ returns1' = pct_change(prices1)
    /\ returns2' = pct_change(prices2)
    /\ position_change' = PositionChange(position)
    /\ strategy_return' = [k \in 1..Len(position) |-> Num(0)]
    /\ ri' = 1
    /\ pc' = "cr_loop"
    /\ UNCHANGED <<sgVars, tableVars, initial_capital, transaction_cost,
                   slippage, prices1, prices2, transaction_costs,
                   slippage_costs, net_return, cumulative_return,
                   portfolio_value>>
    /\ UNCHANGED <<backtest, psVars, paVars>>

\* for i in range(1, len(results)): one iteration (row ri, element ri+1).
CalcReturnsIter ==
    /\ pc = "cr_loop"
    /\ ri < Len(position)
    /\ strategy_return' =
          [strategy_return EXCEPT
              ![ri + 1] = StrategyReturnAt(position, returns1, returns2, ri + 1)]
    /\ ri' = ri + 1
    /\ UNCHANGED <<sgVars, tableVars, initial_capital, transaction_cost,
                   slippage, prices1, prices2, returns1, returns2,
                   position_change, transaction_costs, slippage_costs,
                   net_return, cumulative_return, portfolio_value, pc>>
    /\ UNCHANGED <<backtest, psVars, paVars>>

\* The column operations after the loop, and return results.
CalcReturnsFinish ==
    /\ pc = "cr_loop"
    /\ ri >= Len(position)
    /\ LET tc  == Scaled(position_change, transaction_cost)
           sl  == Scaled(position_change, slippage)
           net == NetReturn(strategy_return, tc, sl)
           cum == CumulativeReturn(net)
       IN  /\ transaction_costs' = tc
           /\ slippage_costs' = sl
           /\ net_return' = net
           /\ cumulative_return' = cum
           /\ portfolio_value' = PortfolioValue(cum, initial_capital)
    /\ pc' = "cr_returned"
    /\ UNCHANGED <<sgVars, tableVars, initial_capital, transaction_cost,
                   slippage, prices1, prices2, returns1, returns2,
                   position_change, strategy_return, ri>>
    /\ UNCHANGED <<backtest, psVars, paVars>>

\* -------------------------------------------------------- run_backtest
\* Series.sum(): NaN rows are skipped
RECURSIVE ColumnSum(_)
ColumnSum(col) ==
    IF col = <<>> THEN Num(0)
    ELSE IF Head(col).nan THEN ColumnSum(Tail(col))
    ELSE FAdd(Head(col), ColumnSum(Tail(col)))

\* Series.abs().sum() of a signal column
RECURSIVE AbsSum(_)
AbsSum(col) == IF col = <<>> THEN 0 ELSE Abs(Head(col)) + AbsSum(Tail(col))

\* run_backtest after results = self.calculate_returns(...): the statistics
\* and the dictionary returned. Its 'results' entry is the table, held in
\* the column variables.
RunBacktestStats ==
    /\ pc = "cr_returned"
    /\ LET total_return == cumulative_return[Len(cumulative_return)]
           final_value == portfolio_value[Len(portfolio_value)]
           entries == AbsSum(entry_signal)
           exits == AbsSum(exit_signal)
           total_costs == FAdd(ColumnSum(transaction_costs),
                               ColumnSum(slippage_costs))
       IN  backtest' = << [total_return |-> total_return,
                           final_value |-> final_value,
                           total_trades |-> entries,
                           total_costs |-> total_costs,
                           initial_capital |-> initial_capital] >>
    /\ pc' = "rb_returned"
    /\ UNCHANGED <<sgVars, tableVars, btVars, psVars, paVars>>

\* ---------------------------------------------------------------- main
\* The spreads of the pipeline: one value per timestamp of the price table,
\* which is not empty.
PipelineSpreads == UNION {[1..n -> SpreadVals] : n \in 1..MaxPeriods}

\* SignalGenerator(...) and signal_gen.generate_signals(spread,
\* hedge_ratio) as main calls it (the constructor's lookback_window
\* included).
PlInit ==
    /\ \E c \in ThresholdConfigs :
          /\ entry_threshold = c[1]
          /\ exit_threshold = c[2]
          /\ stop_loss = c[3]
    /\ lookback_window \in Lookbacks
    /\ spread \in PipelineSpreads
    /\ zscore = calculate_zscore(spread, lookback_window)
    /\ position = Zeros(Len(spread))
    /\ entry_signal = Zeros(Len(spread))
    /\ exit_signal = Zeros(Len(spread))
    /\ current_position = 0
    /\ i = 0
    /\ pc = "loop"

\* backtester = Backtester(...); backtester.run_backtest(signals, symbol1,
\* symbol2, prices), up to the entry of calculate_returns. The signals are
\* the table generate_signals returned; the prices are those the spread
\* was computed from, spread = prices[symbol2] - hedge_ratio *
\* prices[symbol1], here with hedge_ratio 1 and symbol1 at a constant
\* level.
RunBacktestCall ==
    /\ pc = "returned"
    /\ initial_capital' \in CapitalVals
    /\ \E c \in CostConfigs :
          /\ transaction_cost' = c[1]
          /\ slippage' = c[2]
    /\ \E level \in PriceLevels :
          /\ prices1' = [k \in 1..Len(spread) |-> level]
          /\ prices2' = [k \in 1..Len(spread) |-> spread[k] + level]
    /\ pc' = "cr_entry"
    /\ UNCHANGED <<sgVars, tableVars, returns1, returns2, position_change,
                   strategy_return, transaction_costs, slippage_costs,
                   net_return, cumulative_return, portfolio_value, ri>>
    /\ UNCHANGED <<backtest, psVars, paVars>>

\* ------------------------------------------------------- pair scans
\* Correlations and p-values are in hundredths (70 is 0.70), half-lives in
\* periods. A half-life is [inf, v]: calculate_half_life returns np.inf for
\* a spread that does not revert.
PValueThresholdDefault == 5
MinCorrelationDefault == 70
Fallback1MaxPValue == 20
Fallback2MinCorrelation == 60
Fallback2MaxPValue == 30
HalfLifeLimit == 252

HalfLife(v) == [inf |-> FALSE, v |-> v]
HalfLifeInf == [inf |-> TRUE, v |-> 0]

\* combinations(symbols, 2), symbols being 1..n, in the order itertools
\* yields them
RECURSIVE PairsFrom(_, _, _)
PairsFrom(a, b, n) ==
    IF a >= n THEN <<>>
    ELSE IF b > n THEN PairsFrom(a + 1, a + 2, n)
    ELSE <<(<<a, b>>)>> \o PairsFrom(a, b + 1, n)

combinations(n) == PairsFrom(1, 2, n)

\* The loop of a scan sees each pair together with what corr, coint and the
\* spread statistics give for it.
Candidates(n, st) ==
    LET c == combinations(n)
    IN  [k \in 1..Len(c) |-> [pair |-> c[k], st |-> st[k]]]

\* pair_info (the hedge ratio and the spread moments are not modelled)
PairInfo(pr, st) ==
    [symbol1 |-> pr[1], symbol2 |-> pr[2], correlation |-> st.correlation,
     cointegration_pvalue |-> st.pvalue, half_life |-> st.half_life]

\* if abs(correlation) < min_correlation: continue
LowCorrelation(c, min) == Abs(c) < min

SignificantAtOrBelow(p, limit) == p <= limit

\* if pvalue < self.pvalue_threshold / if pvalue < max_pvalue
Significant(p, limit) == p < limit

MeanRevertingAnyHalfLife(hl) == TRUE

\* if half_life < 252 and half_life > 0
MeanReverting(hl) == ~hl.inf /\ hl.v < HalfLifeLimit /\ hl.v > 0

\* The body of the try block for one pair: "skip" (low correlation),
\* "raise" (coint raised), "append" or "pass".
CointegratedBody(st, min, limit) ==
    IF LowCorrelation(st.correlation, min) THEN "skip"
    ELSE IF st.raises THEN "raise"
    ELSE IF Significant(st.pvalue, limit) THEN "append"
    ELSE "pass"

CorrelationBody(st, min, limit) ==
    IF LowCorrelation(st.correlation, min) THEN "skip"
    ELSE IF st.raises THEN "raise"
    ELSE IF Significant(st.pvalue, limit) /\ MeanReverting(st.half_life)
         THEN "append"
    ELSE "pass"

Body(fn, st, min, limit) ==
    IF fn = "find_cointegrated_pairs" THEN CointegratedBody(st, min, limit)
    ELSE CorrelationBody(st, min, limit)

ExceptBreak(rest) == <<>>

\* except Exception: continue -- the pairs the loop still visits
ExceptContinue(rest) == rest

\* for symbol1, symbol2 in combinations(symbols, 2): the pairs appended and
\* the pairs visited, in order
RECURSIVE Scan(_, _, _, _)
Scan(fn, cands, min, limit) ==
    IF cands = <<>> THEN [found |-> <<>>, examined |-> <<>>]
    ELSE LET c == Head(cands)
             out == Body(fn, c.st, min, limit)
             rest == Scan(fn, IF out = "raise" THEN ExceptContinue(Tail(cands))
                              ELSE Tail(cands), min, limit)
         IN  [found |-> (IF out = "append" THEN <<PairInfo(c.pair, c.st)>>
                         ELSE <<>>) \o rest.found,
              examined |-> <<c.pair>> \o rest.examined]

\* ---------------------------------------------------- list.sort(key=...)
\* key(a) < key(b) as Python evaluates it. by = "pvalue": the key is
\* x['cointegration_pvalue']; otherwise it is the tuple
\* (-abs(x['correlation']), x['cointegration_pvalue']), compared item by
\* item.
KeyLt(by, a, b) ==
    IF by = "pvalue" THEN a.cointegration_pvalue < b.cointegration_pvalue
    ELSE IF -Abs(a.correlation) # -Abs(b.correlation)
         THEN -Abs(a.correlation) < -Abs(b.correlation)
    ELSE a.cointegration_pvalue < b.cointegration_pvalue

Reverse(s) == [k \in 1..Len(s) |-> s[Len(s) + 1 - k]]

\* The run that starts the list: s[1..k] is one, extended while the next
\* element continues it (strictly descending, or non-descending).
RECURSIVE RunLength(_, _, _, _)
RunLength(by, s, k, desc) ==
    IF k >= Len(s) THEN k
    ELSE IF KeyLt(by, s[k + 1], s[k]) = desc THEN RunLength(by, s, k + 1, desc)
    ELSE k

\* Where binary insertion puts x in the sorted prefix (0-based bounds l, r).
RECURSIVE BinaryPosition(_, _, _, _, _)
BinaryPosition(by, s, x, l, r) ==
    IF l >= r THEN l
    ELSE LET p == (l + r) \div 2
         IN  IF KeyLt(by, x, s[p + 1]) THEN BinaryPosition(by, s, x, l, p)
             ELSE BinaryPosition(by, s, x, p + 1, r)

RECURSIVE BinarySort(_, _, _)
BinarySort(by, sorted, rest) ==
    IF rest = <<>> THEN sorted
    ELSE LET x == Head(rest)
             l == BinaryPosition(by, sorted, x, 0, Len(sorted))
         IN  BinarySort(by, SubSeq(sorted, 1, l) \o <<x>>
                            \o SubSeq(sorted, l + 1, Len(sorted)), Tail(rest))

\* list.sort on a short list: the opening run (reversed when descending),
\* then binary insertion of the rest. Stable; only "<" on keys is used.
list_sort(by, s) ==
    IF Len(s) < 2 THEN s
    ELSE LET desc == KeyLt(by, s[2], s[1])
             n == RunLength(by, s, 2, desc)
             run == SubSeq(s, 1, n)
         IN  BinarySort(by, IF desc THEN Reverse(run) ELSE run,
                        SubSeq(s, n + 1, Len(s)))

\* find_cointegrated_pairs(prices, min_correlation): the sorted list it
\* returns (and stores in self.pairs) and the pairs it visited
find_cointegrated_pairs(cands, min, threshold) ==
    LET s == Scan("find_cointegrated_pairs", cands, min, threshold)
    IN  [fn |-> "find_cointegrated_pairs", min_correlation |-> min,
         max_pvalue |-> threshold, examined |-> s.examined,
         result |-> list_sort("pvalue", s.found)]

\* find_correlation_based_pairs(prices, min_correlation, max_pvalue)
find_correlation_based_pairs(cands, min, max_pvalue) ==
    LET s == Scan("find_correlation_based_pairs", cands, min, max_pvalue)
    IN  [fn |-> "find_correlation_based_pairs", min_correlation |-> min,
         max_pvalue |-> max_pvalue, examined |-> s.examined,
         result |-> list_sort("correlation", s.found)]

\* ------------------------------------------------------ input domains
Profile(c, p, hl, raises) ==
    [correlation |-> c, pvalue |-> p, half_life |-> hl, raises |-> raises]

\* What the library calls give for one pair: two cointegrated pairs, one
\* of them negatively correlated; a weakly correlated pair with a p-value
\* equal to the default threshold; a negatively correlated pair with a
\* p-value between the two fallback limits; a pair with a half-life of
\* exactly 252; a pair whose spread does not revert; a pair on which coint
\* raises.
PairProfiles ==
    { Profile(75, 3, HalfLife(10), FALSE),
      Profile(-80, 2, HalfLife(10), FALSE),
      Profile(55, 5, HalfLife(10), FALSE),
      Profile(-75, 25, HalfLife(10), FALSE),
      Profile(80, 15, HalfLife(252), FALSE),
      Profile(90, 15, HalfLifeInf, FALSE),
      Profile(75, 3, HalfLife(10), TRUE) }

\* (min_correlation, use_fallback) of a select_best_pair call
SelectArgs == { <<MinCorrelationDefault, TRUE>>,
                <<MinCorrelationDefault, FALSE>>,
                <<50, TRUE>> }

\* (min_correlation, max_pvalue) of a direct find_correlation_based_pairs
\* call
ScanArgs == { <<MinCorrelationDefault, Fallback1MaxPValue>>,
              <<50, Fallback2MaxPValue>> }

NoError == [type |-> "none", message |-> "", parameters |-> <<>>]

\* raise ValueError("No suitable pairs found. Try: ..."): a fixed text of
\* three suggestions, into which no argument or threshold is formatted
NoSuitablePairs ==
    [type |-> "ValueError", message |-> "No suitable pairs found",
     parameters |-> <<>>]

\* The PairSelector and the locals of select_best_pair, not used by the
\* other components.
PsIdle ==
    /\ pvalue_threshold = PValueThresholdDefault
    /\ self_pairs = <<>>
    /\ symbols = 0
    /\ stats = <<>>
    /\ min_correlation = MinCorrelationDefault
    /\ use_fallback = TRUE
    /\ pairs = <<>>
    /\ calls = <<>>
    /\ best_pair = <<>>
    /\ error = NoError

\* PairSelector(pvalue_threshold=0.05), a price table of two to MaxSymbols
\* symbols, and the entry of select_best_pair(prices, min_correlation,
\* use_fallback) or of find_correlation_based_pairs(prices, ...).
PsInit ==
    /\ pvalue_threshold = PValueThresholdDefault
    /\ self_pairs = <<>>
    /\ symbols \in 2..MaxSymbols
    /\ stats \in [1..Len(combinations(symbols)) -> PairProfiles]
    /\ \/ /\ pc = "sb_entry"
          /\ \E a \in SelectArgs :
                /\ min_correlation = a[1]
                /\ use_fallback = a[2]
       \/ /\ pc = "scan_entry"
          /\ min_correlation = MinCorrelationDefault
          /\ use_fallback = TRUE
    /\ pairs = <<>>
    /\ calls = <<>>
    /\ best_pair = <<>>
    /\ error = NoError

\* ---------------------------------------------------- select_best_pair
\* if not pairs and use_fallback:
RunsFallback(p, fallback) == p = <<>> /\ fallback

BestOfLast(p) == p[Len(p)]

\* best_pair = pairs[0]
BestOf(p) == p[1]

\* pairs = self.find_cointegrated_pairs(prices, min_correlation)
SelectStrict ==
    /\ pc = "sb_entry"
    /\ LET c == find_cointegrated_pairs(Candidates(symbols, stats),
                                        min_correlation, pvalue_threshold)
       IN  /\ pairs' = c.result
           /\ self_pairs' = c.result
           /\ calls' = Append(calls, c)
    /\ pc' = "sb_strict"
    /\ UNCHANGED <<pvalue_threshold, symbols, stats, min_correlation,
                   use_fallback, best_pair, error>>
    /\ UNCHANGED <<sgVars, tableVars, btVars, backtest, paVars>>

\* pairs = self.find_correlation_based_pairs(prices, min_correlation,
\*                                           max_pvalue=0.20)
SelectFallback1 ==
    /\ pc = "sb_strict"
    /\ RunsFallback(pairs, use_fallback)
    /\ LET c == find_correlation_based_pairs(Candidates(symbols, stats),
                                             min_correlation, Fallback1MaxPValue)
       IN  /\ pairs' = c.result
           /\ calls' = Append(calls, c)
    /\ pc' = "sb_fallback1"
    /\ UNCHANGED <<pvalue_threshold, self_pairs, symbols, stats,
                   min_correlation, use_fallback, best_pair, error>>
    /\ UNCHANGED <<sgVars, tableVars, btVars, backtest, paVars>>

\* if not pairs: pairs = self.find_correlation_based_pairs(
\*     prices, min_correlation=0.6, max_pvalue=0.30)
SelectFallback2 ==
    /\ pc = "sb_fallback1"
    /\ pairs = <<>>
    /\ LET c == find_correlation_based_pairs(Candidates(symbols, stats),
                                             Fallback2MinCorrelation,
                                             Fallback2MaxPValue)
       IN  /\ pairs' = c.result
           /\ calls' = Append(calls, c)
    /\ pc' = "sb_fallback2"
    /\ UNCHANGED <<pvalue_threshold, self_pairs, symbols, stats,
                   min_correlation, use_fallback, best_pair, error>>
    /\ UNCHANGED <<sgVars, tableVars, btVars, backtest, paVars>>

\* Control has reached the second "if not pairs:" (line 321).
AtCheck ==
    \/ pc = "sb_strict" /\ ~RunsFallback(pairs, use_fallback)
    \/ pc = "sb_fallback1" /\ pairs # <<>>
    \/ pc = "sb_fallback2"

\* if not pairs: raise ValueError(...)
SelectRaise ==
    /\ AtCheck
    /\ pairs = <<>>
    /\ error' = NoSuitablePairs
    /\ pc' = "sb_raised"
    /\ UNCHANGED <<pvalue_threshold, self_pairs, symbols, stats,
                   min_correlation, use_fallback, pairs, calls, best_pair>>
    /\ UNCHANGED <<sgVars, tableVars, btVars, backtest, paVars>>

\* best_pair = pairs[0]; return best_pair
SelectReturn ==
    /\ AtCheck
    /\ pairs # <<>>
    /\ best_pair' = <<BestOf(pairs)>>
    /\ pc' = "sb_returned"
    /\ UNCHANGED <<pvalue_threshold, self_pairs, symbols, stats,
                   min_correlation, use_fallback, pairs, calls, error>>
    /\ UNCHANGED <<sgVars, tableVars, btVars, backtest, paVars>>

\* find_correlation_based_pairs called on its own
CorrelationScanCall ==
    /\ pc = "scan_entry"
    /\ \E a \in ScanArgs :
          LET c == find_correlation_based_pairs(Candidates(symbols, stats),
                                                a[1], a[2])
          IN  /\ pairs' = c.result
              /\ calls' = Append(calls, c)
    /\ pc' = "scan_returned"
    /\ UNCHANGED <<pvalue_threshold, self_pairs, symbols, stats,
                   min_correlation, use_fallback, best_pair, error>>
    /\ UNCHANGED <<sgVars, tableVars, btVars, backtest, paVars>>

\* ---------------------------------------------- PerformanceAnalyzer
PeriodsPerYear == 252

\* a < b, a >= b, a == b on floats: false when either side is NaN
FLess(a, b) == ~a.nan /\ ~b.nan /\ a.n * b.d < b.n * a.d

FGeq(a, b) == ~a.nan /\ ~b.nan /\ a.n * b.d >= b.n * a.d

FEq(a, b) == ~a.nan /\ ~b.nan /\ a.n * b.d = b.n * a.d

\* Series.expanding().max() at row k: the largest of the values that are
\* not NaN among rows 1..k, NaN when there is none
RECURSIVE RunningMax(_, _)
RunningMax(s, k) ==
    IF k = 0 THEN NaN
    ELSE LET m == RunningMax(s, k - 1)
         IN  IF s[k].nan THEN m
             ELSE IF m.nan \/ FLess(m, s[k]) THEN s[k]
             ELSE m

\* drawdown = (portfolio_value - running_max) / running_max
Drawdown(s) ==
    [k \in 1..Len(s) |->
        FDiv(FSub(s[k], RunningMax(s, k)), RunningMax(s, k))]

HasValue(col) == \E k \in 1..Len(col) : ~col[k].nan

\* Series.idxmin(), Series.idxmax(): the first row that holds the smallest
\* (largest) value, NaN rows skipped
idxmin(col) ==
    CHOOSE k \in 1..Len(col) :
        /\ ~col[k].nan
        /\ \A j \in 1..Len(col) : ~FLess(col[j], col[k])
        /\ \A j \in 1..(k - 1) : col[j].nan \/ FLess(col[k], col[j])

idxmax(col) ==
    CHOOSE k \in 1..Len(col) :
        /\ ~col[k].nan
        /\ \A j \in 1..Len(col) : ~FLess(col[k], col[j])
        /\ \A j \in 1..(k - 1) : col[j].nan \/ FLess(col[j], col[k])

\* recovery_series[recovery_mask].index[0], 0 standing for None: the first
\* row from `from` on whose value is at least `level`
FirstAtLeast(s, from, level) ==
    IF \E k \in from..Len(s) : FGeq(s[k], level)
    THEN CHOOSE k \in from..Len(s) :
            /\ FGeq(s[k], level)
            /\ \A j \in from..(k - 1) : ~FGeq(s[j], level)
    ELSE 0

\* calculate_max_drawdown(portfolio_value) on a series indexed by
\* timestamps, so that portfolio_value[:t] and portfolio_value[t:] both
\* include row t. idxmin raises on a series without a value.
calculate_max_drawdown(s) ==
    IF ~HasValue(s)
    THEN [raised |-> TRUE, max_drawdown |-> NaN, peak_date |-> 0,
          trough_date |-> 0, recovery_date |-> 0, peak_value |-> NaN,
          trough_value |-> NaN]
    ELSE LET drawdown == Drawdown(s)
             max_drawdown_idx == idxmin(drawdown)
             peak_idx == idxmax(SubSeq(s, 1, max_drawdown_idx))
             peak_value == s[peak_idx]
         IN  [raised |-> FALSE,
              max_drawdown |-> drawdown[max_drawdown_idx],
              peak_date |-> peak_idx,
              trough_date |-> max_drawdown_idx,
              recovery_date |->
                  IF max_drawdown_idx - 1 < Len(s) - 1
                  THEN FirstAtLeast(s, max_drawdown_idx, peak_value)
                  ELSE 0,
              peak_value |-> peak_value,
              trough_value |-> s[max_drawdown_idx]]

\* The values of a column that are not NaN (what mean and std work on).
Valid(col) == SelectSeq(col, LAMBDA x : ~x.nan)

RECURSIVE FSum(_)
FSum(s) == IF s = <<>> THEN Num(0) ELSE FAdd(Head(s), FSum(Tail(s)))

\* Series.mean(): NaN without a value
Mean(col) ==
    IF Valid(col) = <<>> THEN NaN
    ELSE FDiv(FSum(Valid(col)), Num(Len(Valid(col))))

\* Series.std() squared (ddof = 1): NaN with fewer than two values
Variance(col) ==
    LET v == Valid(col)
        dev == [k \in 1..Len(v) |-> FMul(FSub(v[k], Mean(col)),
                                          FSub(v[k], Mean(col)))]
    IN  IF Len(v) < 2 THEN NaN
        ELSE FDiv(FSum(dev), Num(Len(v) - 1))

\* x.std() == 0
StdIsZero(col) == FEq(Variance(col), Num(0))

\* returns - risk_free_rate / periods_per_year
Excess(returns, rate) ==
    [k \in 1..Len(returns) |->
        FSub(returns[k], FDiv(rate, Num(PeriodsPerYear)))]

\* A ratio returned: 0.0, np.inf, NaN, or the finite value
\* sqrt(periods_per_year) * mean / sqrt(variance).
RatioZero == [kind |-> "zero", mean |-> Num(0), variance |-> Num(1)]
RatioInf == [kind |-> "inf", mean |-> Num(0), variance |-> Num(1)]
RatioNaN == [kind |-> "nan", mean |-> NaN, variance |-> NaN]

\* np.sqrt(periods_per_year) * mean / std, the std not being 0
Annualised(mean, variance) ==
    IF mean.nan \/ variance.nan THEN RatioNaN
    ELSE [kind |-> "finite", mean |-> mean, variance |-> variance]

calculate_sharpe_ratio(returns, rate) ==
    IF Len(returns) = 0 \/ StdIsZero(returns) THEN RatioZero
    ELSE Annualised(Mean(Excess(returns, rate)), Variance(returns))

\* excess_returns[excess_returns < 0]
Downside(excess) == SelectSeq(excess, LAMBDA x : FLess(x, Num(0)))

calculate_sortino_ratio(returns, rate) ==
    IF Len(returns) = 0 THEN RatioZero
    ELSE LET excess_returns == Excess(returns, rate)
             downside_returns == Downside(excess_returns)
         IN  IF Len(downside_returns) = 0 \/ StdIsZero(downside_returns)
             THEN (IF FLess(Num(0), Mean(excess_returns)) THEN RatioInf
                   ELSE RatioZero)
             ELSE Annualised(Mean(excess_returns),
                             Variance(downside_returns))

\* ------------------------------------------------------ input domains
ValueLevels == { Num(90), Num(95), Num(100), Num(110), Num(115) }

ReturnLevels == { Frac(-1, 100), Num(0), Frac(1, 100), NaN }

\* annual risk-free rates: 0 and 1.26 (0.005 a period)
RiskFreeRates == { Num(0), Frac(126, 100) }

SeqsUpTo(S, n) == UNION { [1..k -> S] : k \in 0..n }

\* Portfolio values: positive, the first row possibly NaN (as in the
\* portfolio_value column of calculate_returns).
ValueSeries ==
    SeqsUpTo(ValueLevels, MaxSeries)
        \cup { <<NaN>> \o s : s \in SeqsUpTo(ValueLevels, MaxSeries - 1) }

NoMetric == [fn |-> "none"]

\* The PerformanceAnalyzer's arguments and result, not used by the other
\* components.
PaIdle ==
    /\ series = <<>>
    /\ risk_free = Num(0)
    /\ metric = NoMetric

\* PerformanceAnalyzer() and the entry of calculate_max_drawdown(series) or
\* of one of the two ratios (returns = series, risk_free_rate = risk_free)
PaInit ==
    /\ \/ /\ pc = "dd_entry"
          /\ series \in ValueSeries
          /\ risk_free = Num(0)
       \/ /\ pc = "ratio_entry"
          /\ series \in SeqsUpTo(ReturnLevels, MaxReturns)
          /\ risk_free \in RiskFreeRates
    /\ metric = NoMetric

MaxDrawdownCall ==
    /\ pc = "dd_entry"
    /\ metric' = [fn |-> "calculate_max_drawdown",
                  value |-> calculate_max_drawdown(series)]
    /\ pc' = "dd_returned"
    /\ UNCHANGED <<series, risk_free>>
    /\ UNCHANGED <<sgVars, tableVars, btVars, backtest, psVars>>

SharpeCall ==
    /\ pc = "ratio_entry"
    /\ metric' = [fn |-> "calculate_sharpe_ratio",
                  value |-> calculate_sharpe_ratio(series, risk_free)]
    /\ pc' = "sharpe_returned"
    /\ UNCHANGED <<series, risk_free>>
    /\ UNCHANGED <<sgVars, tableVars, btVars, backtest, psVars>>

SortinoCall ==
    /\ pc = "ratio_entry"
    /\ metric' = [fn |-> "calculate_sortino_ratio",
                  value |-> calculate_sortino_ratio(series, risk_free)]
    /\ pc' = "sortino_returned"
    /\ UNCHANGED <<series, risk_free>>
    /\ UNCHANGED <<sgVars, tableVars, btVars, backtest, psVars>>

\* ---------------------------------------------------- specifications
vars == <<sgVars, tableVars, btVars, backtest, psVars, paVars, pc>>

\* generate_signals on every spread
Init == SgInit /\ BtIdle /\ PsIdle /\ PaIdle

Next == GenerateSignalsIter \/ GenerateSignalsReturn

Spec == Init /\ [][Next]_vars

\* calculate_returns on every signals table and price table
NextBT ==
    CalcReturnsSetup \/ CalcReturnsIter \/ CalcReturnsFinish \/ RunBacktestStats

InitBT == BtInit /\ PsIdle /\ PaIdle

SpecBT == InitBT /\ [][NextBT]_vars

\* select_best_pair, and find_correlation_based_pairs on its own, on every
\* table of pair statistics
InitPS == SgIdle /\ BtIdle /\ PsInit /\ PaIdle /\ position = <<>>
          /\ entry_signal = <<>> /\ exit_signal = <<>>

NextPS ==
    \/ SelectStrict
    \/ SelectFallback1
    \/ SelectFallback2
    \/ SelectRaise
    \/ SelectReturn
    \/ CorrelationScanCall

SpecPS == InitPS /\ [][NextPS]_vars

\* the drawdown and the two ratios on every series
InitPA == SgIdle /\ BtIdle /\ PsIdle /\ PaInit /\ position = <<>>
          /\ entry_signal = <<>> /\ exit_signal = <<>>

NextPA == MaxDrawdownCall \/ SharpeCall \/ SortinoCall

SpecPA == InitPA /\ [][NextPA]_vars

\* generate_signals and then run_backtest on the signals it returned
InitPL == PlInit /\ BtIdle /\ PsIdle /\ PaIdle

NextPL ==
    \/ GenerateSignalsIter
    \/ GenerateSignalsReturn
    \/ RunBacktestCall
    \/ CalcReturnsSetup
    \/ CalcReturnsIter
    \/ CalcReturnsFinish
    \/ RunBacktestStats

SpecPL == InitPL /\ [][NextPL]_vars

\* ------------------------------------------------------------ claims
\* Rows 1..i of the table are the ones generate_signals has produced.
Done == 1..i

\* exit_threshold < entry_threshold < stop_loss
WellOrdered ==
    /\ exit_threshold.n * entry_threshold.d < entry_threshold.n * exit_threshold.d
    /\ entry_threshold.n * stop_loss.d < stop_loss.n * entry_threshold.d

\* C1: a row with entry_signal # 0 has position # 0 and the row before it has
\* position 0; a row with exit_signal = 1 has position 0 and the row before
\* it has position # 0 (so neither happens on the first row).
C1_EntryExitShape ==
    \A t \in Done :
        /\ entry_signal[t] # 0 =>
              position[t] # 0 /\ t > 1 /\ position[t - 1] = 0
        /\ exit_signal[t] = 1 =>
              position[t] = 0 /\ t > 1 /\ position[t - 1] # 0

C1_Witness ==
    /\ pc = "returned"
    /\ \E t \in Done : entry_signal[t] # 0
    /\ \E t \in Done : exit_signal[t] = 1

\* C2: no row is both an entry and an exit, and the recorded position never
\* goes from +1 to -1 or from -1 to +1 between two consecutive rows.
C2_NoEntryAndExit_NoFlip ==
    \A t \in Done :
        /\ ~(entry_signal[t] # 0 /\ exit_signal[t] # 0)
        /\ t > 1 => ~(position[t - 1] = 1 /\ position[t] = -1)
        /\ t > 1 => ~(position[t - 1] = -1 /\ position[t] = 1)

\* a long position closed on one row and a short one opened on the next
C2_Witness ==
    \E t \in Done :
        /\ t > 2
        /\ position[t - 2] = 1
        /\ exit_signal[t - 1] = 1 /\ position[t - 1] = 0
        /\ entry_signal[t] = -1 /\ position[t] = -1

\* The state the loop is in when it reads row t: Flat before the first row,
\* and afterwards the position recorded on the row before.
StateBefore(t) == IF t = 1 THEN 0 ELSE position[t - 1]

\* C3: from Flat, entry_signal = +1 exactly when z < -entry_threshold and
\* entry_signal = -1 exactly when z > +entry_threshold; a z-score equal to
\* either threshold enters nothing; entry_signal equals the recorded position.
C3_FlatTransitions ==
    \A t \in Done :
        StateBefore(t) = 0 =>
            /\ entry_signal[t] = 1 <=> ZLess(zscore[t], Neg(entry_threshold))
            /\ entry_signal[t] = -1 <=> ZGreater(zscore[t], entry_threshold)
            /\ ( ZEq(zscore[t], Neg(entry_threshold))
                 \/ ZEq(zscore[t], entry_threshold) ) => entry_signal[t] = 0
            /\ entry_signal[t] = position[t]
            /\ exit_signal[t] = 0

\* a z-score exactly on the threshold that entered nothing, and an entry
C3_Witness ==
    /\ \E t \in Done :
          /\ StateBefore(t) = 0
          /\ ZEq(zscore[t], Neg(entry_threshold))
          /\ entry_signal[t] = 0
    /\ \E t \in Done : entry_signal[t] = -1
    /\ WellOrdered

\* C4: from Long, exit_signal = 1 and position 0 exactly when z < -stop_loss
\* or z > -exit_threshold; from Short, exactly when z > +stop_loss or
\* z < +exit_threshold; otherwise the position is recorded as held and no
\* signal is set.
C4_ExitTransitions ==
    \A t \in Done :
        /\ StateBefore(t) = 1 =>
              LET out == \/ ZLess(zscore[t], Neg(stop_loss))
                         \/ ZGreater(zscore[t], Neg(exit_threshold))
              IN  /\ entry_signal[t] = 0
                  /\ out => exit_signal[t] = 1 /\ position[t] = 0
                  /\ ~out => exit_signal[t] = 0 /\ position[t] = 1
        /\ StateBefore(t) = -1 =>
              LET out == \/ ZGreater(zscore[t], stop_loss)
                         \/ ZLess(zscore[t], exit_threshold)
              IN  /\ entry_signal[t] = 0
                  /\ out => exit_signal[t] = 1 /\ position[t] = 0
                  /\ ~out => exit_signal[t] = 0 /\ position[t] = -1

\* a short position closed by the stop-loss alone (z above +stop_loss, and
\* not below +exit_threshold), under well-ordered thresholds
C4_Witness ==
    WellOrdered /\ \E t \in Done :
        /\ StateBefore(t) = -1
        /\ ZGreater(zscore[t], stop_loss)
        /\ ~ZLess(zscore[t], exit_threshold)
        /\ exit_signal[t] = 1

\* C5: a NaN z-score causes no transition: the recorded position is the one
\* of the state the loop was in, and both signals are 0.
C5_NaNNoTransition ==
    \A t \in Done :
        zscore[t].nan =>
            /\ position[t] = StateBefore(t)
            /\ entry_signal[t] = 0
            /\ exit_signal[t] = 0

\* a NaN z-score (zero deviation in a full window) met while Long
C5_Witness ==
    WellOrdered /\ \E t \in Done :
        /\ zscore[t].nan
        /\ StateBefore(t) = 1
        /\ position[t] = 1

\* C6: the recorded position differs from the row before only on a row with
\* entry_signal # 0 or exit_signal = 1, and the position recorded last is the
\* carried current_position.
C6_PositionHeld ==
    /\ \A t \in Done :
          (entry_signal[t] = 0 /\ exit_signal[t] # 1) =>
              position[t] = StateBefore(t)
    /\ i > 0 => position[i] = current_position
    /\ i = 0 => current_position = 0

\* a row that holds a long position with no signal
C6_Witness ==
    \E t \in Done :
        /\ t > 1
        /\ position[t - 1] = 1 /\ position[t] = 1
        /\ entry_signal[t] = 0 /\ exit_signal[t] = 0
        /\ ~zscore[t].nan

\* Rows 2..n of the result are the timestamps t >= 1.
Later == 2..Len(position)

Returned == pc = "cr_returned"

\* the simple return of a price column on row k >= 2
SimpleReturn(p, k) == Frac(p[k] - p[k - 1], p[k - 1])

\* C7: for t >= 1 the strategy_return is fixed by the position of t-1:
\* 0 when it is 0, return2[t] - return1[t] when it is +1 and
\* return1[t] - return2[t] when it is -1.
C7_LaggedPosition ==
    Returned =>
        \A k \in Later :
            LET r1 == SimpleReturn(prices1, k)
                r2 == SimpleReturn(prices2, k)
            IN  /\ position[k - 1] = 0 => strategy_return[k] = Num(0)
                /\ position[k - 1] = 1 => strategy_return[k] = FSub(r2, r1)
                /\ position[k - 1] = -1 => strategy_return[k] = FSub(r1, r2)

\* a row whose own position would give another return than the row before
C7_Witness ==
    /\ Returned
    /\ \E k \in Later :
          /\ position[k - 1] = 1
          /\ position[k] = 0
          /\ strategy_return[k] # Num(0)
    /\ \E k \in Later :
          /\ position[k - 1] = 0
          /\ position[k] = -1
          /\ SimpleReturn(prices1, k) # SimpleReturn(prices2, k)

\* |position[k] - position[k-1]|
Turnover(k) == Abs(position[k] - position[k - 1])

\* C8: for t >= 1, transaction_costs = turnover * cost rate and slippage =
\* turnover * slippage rate (so an entry and an exit cost the same and an
\* unchanged position costs nothing), and net_return = strategy_return -
\* transaction_costs - slippage.
C8_CostsByTurnover ==
    Returned =>
        \A k \in Later :
            /\ transaction_costs[k] =
                  Frac(Turnover(k) * transaction_cost.n, transaction_cost.d)
            /\ slippage_costs[k] = Frac(Turnover(k) * slippage.n, slippage.d)
            /\ Turnover(k) = 0 =>
                  transaction_costs[k] = Num(0) /\ slippage_costs[k] = Num(0)
            /\ Turnover(k) = 1 =>
                  transaction_costs[k] = transaction_cost
                  /\ slippage_costs[k] = slippage
            /\ net_return[k] =
                  FSub(FSub(strategy_return[k], transaction_costs[k]),
                       slippage_costs[k])

\* an entry and the exit after it, charged the same under nonzero rates
C8_Witness ==
    /\ Returned
    /\ transaction_cost # Num(0) /\ slippage # Num(0)
    /\ \E k \in Later :
          /\ k > 2
          /\ position[k - 2] = 0 /\ position[k - 1] # 0 /\ position[k] = 0
          /\ transaction_costs[k - 1] = transaction_costs[k]
          /\ slippage_costs[k - 1] = slippage_costs[k]
          /\ transaction_costs[k] # Num(0)

ZeroCosts == transaction_cost = Num(0) /\ slippage = Num(0)

RECURSIVE Compounded(_)
Compounded(k) ==
    IF k < 2 THEN Num(1)
    ELSE FMul(Compounded(k - 1), FAdd(Num(1), net_return[k]))

\* the sum of net_return[j] over the rows j = 2..k
RECURSIVE Added(_)
Added(k) == IF k < 2 THEN Num(0) ELSE FAdd(Added(k - 1), net_return[k])

InSelect ==
    pc \in {"sb_strict", "sb_fallback1", "sb_fallback2", "sb_raised",
            "sb_returned"}

Finished == pc \in {"sb_raised", "sb_returned"}

\* The pairs of the universe with their statistics, in scan order.
Universe == Candidates(symbols, stats)

\* A pair that the strict level accepts: evaluated without error,
\* |correlation| >= min_correlation and p-value < pvalue_threshold.
PassesStrict(st, min) ==
    /\ ~st.raises
    /\ Abs(st.correlation) >= min
    /\ st.pvalue < pvalue_threshold

\* A pair that a fallback level with these parameters accepts: evaluated
\* without error, |correlation| >= min, p-value < max_pvalue, half-life
\* finite, positive and below 252.
PassesLevel(st, min, max_pvalue) ==
    /\ ~st.raises
    /\ Abs(st.correlation) >= min
    /\ st.pvalue < max_pvalue
    /\ ~st.half_life.inf
    /\ st.half_life.v > 0
    /\ st.half_life.v < 252

\* l holds exactly the pairs of the universe whose places in the scan are
\* in ok, each once.
HoldsExactly(l, ok) ==
    LET u == Universe
        info == [k \in 1..Len(u) |-> PairInfo(u[k].pair, u[k].st)]
    IN  /\ \A k \in 1..Len(u) :
              k \in ok <=> \E j \in 1..Len(l) : l[j] = info[k]
        /\ \A j \in 1..Len(l) : \E k \in 1..Len(u) : l[j] = info[k]
        /\ \A j1, j2 \in 1..Len(l) : j1 # j2 => l[j1] # l[j2]

\* C11: the scans of select_best_pair are, in this order, the strict one,
\* the first fallback and the second fallback; a fallback scan is made only
\* if use_fallback is true and every earlier scan returned an empty list, and
\* it is made whenever that is so; the pair returned is the first element of
\* the list of the first non-empty level; if no pair passes the strict level
\* but one passes a fallback level, that level's first pair is returned and
\* no error is raised.
C11_LevelOrder ==
    InSelect =>
        /\ Len(calls) \in 1..3
        /\ calls[1].fn = "find_cointegrated_pairs"
        /\ \A k \in 2..Len(calls) :
              /\ calls[k].fn = "find_correlation_based_pairs"
              /\ calls[k].max_pvalue =
                    (IF k = 2 THEN Fallback1MaxPValue ELSE Fallback2MaxPValue)
              /\ use_fallback
              /\ \A j \in 1..(k - 1) : calls[j].result = <<>>
        /\ Finished =>
              /\ ~use_fallback => Len(calls) = 1
              /\ (use_fallback /\ \A k \in 1..Len(calls) : calls[k].result = <<>>)
                    => Len(calls) = 3
        /\ pc = "sb_returned" =>
              /\ calls[Len(calls)].result # <<>>
              /\ best_pair = << calls[Len(calls)].result[1] >>
        /\ ( /\ Finished
             /\ use_fallback
             /\ \A k \in 1..Len(stats) :
                   ~PassesStrict(stats[k], min_correlation)
             /\ \E k \in 1..Len(stats) :
                   \/ PassesLevel(stats[k], min_correlation,
                                  Fallback1MaxPValue)
                   \/ PassesLevel(stats[k], Fallback2MinCorrelation,
                                  Fallback2MaxPValue) )
           => /\ pc = "sb_returned"
              /\ error = NoError
              /\ Len(calls) \in 2..3
              /\ best_pair[1].cointegration_pvalue >= pvalue_threshold
                    \/ Abs(best_pair[1].correlation) < min_correlation

\* all three levels ran and the second fallback level returned two pairs,
\* the first of which is the pair returned
C11_Witness ==
    /\ pc = "sb_returned"
    /\ Len(calls) = 3
    /\ Len(calls[3].result) >= 2
    /\ calls[3].result[1] # calls[3].result[Len(calls[3].result)]
    /\ best_pair = << calls[3].result[1] >>

\* C12: select_best_pair ends in the "no suitable pair" error exactly when
\* every level it ran returned no pair (three levels with use_fallback, the
\* strict one without); the error reports the parameters tried, and no pair
\* is returned.
C12_NoSuitablePairError ==
    /\ Finished =>
          (pc = "sb_raised" <=> \A k \in 1..Len(calls) : calls[k].result = <<>>)
    /\ pc = "sb_raised" =>
          /\ Len(calls) = (IF use_fallback THEN 3 ELSE 1)
          /\ best_pair = <<>>
          /\ error.type = "ValueError"
          /\ error.parameters =
                [k \in 1..Len(calls) |->
                    <<calls[k].min_correlation, calls[k].max_pvalue>>]

\* C13: whatever min_correlation the caller passes, the first fallback scan
\* runs with min_correlation 0.7 and max_pvalue 0.20, the second with 0.6 and
\* 0.30, and every pair the first fallback level accepts is one the second
\* would accept.
C13_LooserLevels ==
    InSelect =>
        /\ Len(calls) >= 2 =>
              /\ calls[2].min_correlation = 70
              /\ calls[2].max_pvalue = 20
              /\ \A k \in 1..Len(stats) :
                    PassesLevel(stats[k], calls[2].min_correlation,
                                calls[2].max_pvalue)
                        => PassesLevel(stats[k], 60, 30)
        /\ Len(calls) >= 3 =>
              /\ calls[3].min_correlation = 60
              /\ calls[3].max_pvalue = 30

\* the unordered pairs of symbols
UnorderedPairs == { <<a, b>> \in (1..symbols) \X (1..symbols) : a < b }

\* l visits every unordered pair of symbols exactly once.
VisitsEachOnce(l) ==
    \A pr \in UnorderedPairs :
        Cardinality({ k \in 1..Len(l) : l[k] = pr }) = 1

WithoutFailing == SelectSeq(Universe, LAMBDA x : ~x.st.raises)

\* The same scan as call c, on another list of pairs.
Rescan(c, cands) ==
    IF c.fn = "find_cointegrated_pairs"
    THEN find_cointegrated_pairs(cands, c.min_correlation, c.max_pvalue)
    ELSE find_correlation_based_pairs(cands, c.min_correlation, c.max_pvalue)

\* C16: in both scans an error raised while one pair is evaluated removes
\* only that pair: every pair is still visited, and the list returned is the
\* list the scan returns for the universe without the failing pairs.
C16_FailureIsolation ==
    LET all == combinations(symbols)
        rest == WithoutFailing
    IN  \A n \in 1..Len(calls) :
            /\ calls[n].examined = all
            /\ calls[n].result = Rescan(calls[n], rest).result
            /\ \A j \in 1..Len(calls[n].result) :
                  \E k \in 1..Len(stats) :
                      /\ ~stats[k].raises
                      /\ calls[n].result[j] = PairInfo(all[k], stats[k])

\* Both kinds of scan have run on a universe whose first pair raises, and
\* the last has returned a pair scanned after it.
C16_Witness ==
    /\ Len(calls) >= 2
    /\ Len(stats) >= 2
    /\ stats[1].raises
    /\ Abs(stats[1].correlation) >= calls[Len(calls)].min_correlation
    /\ calls[Len(calls)].result # <<>>
    /\ calls[Len(calls)].fn = "find_correlation_based_pairs"

\* ---------------------------------------- claims: performance metrics
\* calculate_max_drawdown has returned a record.
DrawdownReturned == pc = "dd_returned" /\ ~metric.value.raised

\* C17: max_drawdown is the least value of (value - running_max) /
\* running_max and trough_date a row where it is reached; when there is a
\* drawdown, peak_date is the last row strictly before the trough that holds
\* the running maximum (the latest one when the peak value occurs several
\* times before the trough).
C17_PeakAndTrough ==
    DrawdownReturned =>
        LET v == metric.value
            dd == Drawdown(series)
        IN  /\ \A k \in 1..Len(series) : ~FLess(dd[k], v.max_drawdown)
            /\ FEq(dd[v.trough_date], v.max_drawdown)
            /\ FLess(v.max_drawdown, Num(0)) =>
                  /\ v.peak_date < v.trough_date
                  /\ FEq(series[v.peak_date],
                         RunningMax(series, v.trough_date))
                  /\ \A j \in (v.peak_date + 1)..(v.trough_date - 1) :
                        ~FEq(series[j], series[v.peak_date])

\* C18: recovery_date is the first row at or after the trough whose value is
\* at least the peak value, and None (0) exactly when there is no such row,
\* also when the trough is the last row and when there is no drawdown.
C18_Recovery ==
    DrawdownReturned =>
        LET v == metric.value
            back == { k \in v.trough_date..Len(series) :
                         FGeq(series[k], v.peak_value) }
        IN  /\ v.recovery_date = 0 <=> back = {}
            /\ back # {} =>
                  /\ v.recovery_date \in back
                  /\ \A k \in back : v.recovery_date <= k

\* C19: for every return series both ratios return 0, +inf or a finite
\* value, never NaN; without a negative excess return the Sortino ratio is
\* +inf when the mean excess return is positive and 0 otherwise.
C19_DefinedRatios ==
    /\ pc \in {"sharpe_returned", "sortino_returned"} =>
          metric.value.kind \in {"zero", "inf", "finite"}
    /\ ( /\ pc = "sortino_returned"
         /\ Downside(Excess(series, risk_free)) = <<>> )
       => metric.value.kind =
             (IF FLess(Num(0), Mean(Excess(series, risk_free)))
              THEN "inf" ELSE "zero")

\* ------------------------------------------------ claims: run_backtest
\* C20: the record run_backtest returns reports the number of entries and
\* the number of exits (the sums of the absolute entry and exit signals) and
\* the total cost, the sum over all rows of transaction_costs and slippage.
C20_EntriesExitsCosts ==
    pc = "rb_returned" =>
        LET r == backtest[1]
        IN  /\ r.total_trades = AbsSum(entry_signal)
            /\ r.total_costs = FAdd(ColumnSum(transaction_costs),
                                    ColumnSum(slippage_costs))
            /\ \E f \in DOMAIN r \ {"total_trades", "total_costs"} :
                  r[f] = Num(AbsSum(exit_signal))

\* ------------------------------------------- claims: the whole pipeline
\* The calls of calculate_returns and run_backtest.
InBacktest == pc \in {"cr_entry", "cr_loop", "cr_returned", "rb_returned"}

\* C21: no step of any operation changes an argument or an object that
\* outlives the call: generate_signals leaves the spread (and the
\* SignalGenerator) as they were, calculate_returns the signals table, the
\* price columns and the Backtester, and the pair scans and
\* select_best_pair the price table and the PairSelector (its
\* pvalue_threshold and its pairs attribute).
C21_InputsAndObjectsUnchanged ==
    [][ /\ UNCHANGED <<spread, entry_threshold, exit_threshold, stop_loss,
                       lookback_window>>
        /\ InBacktest =>
              UNCHANGED <<tableVars, prices1, prices2, initial_capital,
                          transaction_cost, slippage>>
        /\ UNCHANGED <<symbols, stats>>
        /\ UNCHANGED <<pvalue_threshold, self_pairs>> ]_vars

\* ------------------------------------ claims: generate_signals, counted
\* The number of rows 1..t of a column whose value is in vals.
CountIn(col, t, vals) == Cardinality({k \in 1..t : col[k] \in vals})

\* Entries minus exits over rows 1..t.
OpenTrades(t) ==
    CountIn(entry_signal, t, {-1, 1}) - CountIn(exit_signal, t, {1})

\* C22: over every prefix of the rows produced, the number of nonzero
\* entry_signal values minus the number of exit_signal = 1 values is 0 or 1
\* and is the absolute value of the position on the prefix's last row
\* (entries and exits alternate, an entry first); over the whole run it is
\* 1 if the last row holds a position and 0 otherwise.
C22_Alternation ==
    /\ \A t \in Done :
          /\ OpenTrades(t) \in {0, 1}
          /\ OpenTrades(t) = Abs(position[t])
    /\ pc = "returned" =>
          OpenTrades(Len(spread)) =
              (IF Len(spread) > 0 /\ position[Len(spread)] # 0 THEN 1 ELSE 0)

\* A finished run with two entries, one of them short, and two exits.
C22_Witness ==
    /\ pc = "returned"
    /\ CountIn(entry_signal, Len(spread), {-1, 1}) = 2
    /\ CountIn(entry_signal, Len(spread), {-1}) >= 1
    /\ CountIn(exit_signal, Len(spread), {1}) = 2

\* --------------------------------- claims: signals fed to the backtest
\* calculate_returns has returned (run_backtest may have too).
Costed == pc \in {"cr_returned", "rb_returned"}

\* transaction_cost + slippage
CostRate == FAdd(transaction_cost, slippage)

\* C23: the first row of generate_signals has position 0 and no entry
\* signal, and with a rolling window of width w so have the first w-1
\* rows; hence in calculate_returns every entry row has a row before it, a
\* turnover of 1, and carries the transaction cost and the slippage in its
\* net return.
C23_NoEntryOnFirstRow ==
    /\ \A t \in Done :
          /\ t = 1 => position[t] = 0 /\ entry_signal[t] = 0
          /\ ~lookback_window.none /\ t <= lookback_window.w - 1 =>
                position[t] = 0
    /\ Costed =>
          \A t \in 1..Len(position) :
              entry_signal[t] # 0 =>
                  /\ t >= 2
                  /\ position_change[t] = Num(1)
                  /\ transaction_costs[t] = transaction_cost
                  /\ slippage_costs[t] = slippage
                  /\ net_return[t] = FSub(strategy_return[t], CostRate)

\* A backtest with costs of signals from a rolling window of width 3 whose
\* first entry is on the third row, the first row with a z-score.
C23_Witness ==
    /\ Costed
    /\ CostRate # Num(0)
    /\ lookback_window = [none |-> FALSE, w |-> 3]
    /\ Len(position) >= 3
    /\ entry_signal[3] # 0
    /\ net_return[3] = FNeg(CostRate)

\* C24: between consecutive rows of generated signals the position changes
\* by 0 or 1, never by 2, so the total cost run_backtest reports is
\* (transaction_cost + slippage) times the number of entries plus the
\* number of exits.
C24_UnitTurnover ==
    /\ \A t \in Done :
          t >= 2 => Abs(position[t] - position[t - 1]) \in {0, 1}
    /\ pc = "rb_returned" =>
          backtest[1].total_costs =
              FMul(CostRate,
                   Num(CountIn(entry_signal, Len(position), {-1, 1})
                       + CountIn(exit_signal, Len(position), {1})))

\* A backtest with costs of a run with a long entry, a short entry and an
\* exit between them: three trades, each costed once.
C24_Witness ==
    /\ pc = "rb_returned"
    /\ CostRate # Num(0)
    /\ CountIn(entry_signal, Len(position), {-1}) >= 1
    /\ CountIn(entry_signal, Len(position), {1}) >= 1
    /\ CountIn(exit_signal, Len(position), {1}) >= 1
    /\ backtest[1].total_costs = FMul(CostRate, Num(3))

\* -------------------------------------- claims: flat and entry rows
\* C25: in the table calculate_returns returns, a row t >= 1 that stays at
\* position 0 has net_return 0 and the portfolio value of the row before;
\* a row t >= 1 that leaves position 0 has strategy_return 0 and net_return
\* -(transaction_cost + slippage); and a run that never holds a position
\* ends with a portfolio value of initial_capital and total costs of 0.
C25_FlatAndEntryRows ==
    /\ Costed =>
          \A k \in 2..Len(position) :
              /\ position[k - 1] = 0 /\ position[k] = 0 =>
                    /\ FEq(net_return[k], Num(0))
                    /\ FEq(portfolio_value[k], portfolio_value[k - 1])
              /\ position[k - 1] = 0 /\ position[k] # 0 =>
                    /\ FEq(strategy_return[k], Num(0))
                    /\ FEq(net_return[k], FNeg(CostRate))
    /\ pc = "rb_returned" /\ (\A k \in 1..Len(position) : position[k] = 0) =>
          /\ FEq(backtest[1].final_value, initial_capital)
          /\ FEq(backtest[1].total_costs, Num(0))

====
